---- MODULE Spec2Model ----
(***************************************************************************)
(* Model of rofi-window-i3/src/rofi.rs: the generic adapter between a      *)
(* RofiMode provider and rofi's C dispatch table (c::rofi_mode).           *)
(*                                                                         *)
(* State: the dispatch table mc, the heap of ModeData blocks the init      *)
(* thunk allocates, the value of the *state out-parameter, and a record    *)
(* of what the last thunk call did and returned.  One action per thunk.    *)
(* The host calls the thunks one at a time (rofi.rs:260-262), so every     *)
(* thunk is one atomic action; _get_icon is also modelled step by step     *)
(* (lock, lookup, icon_query, fetch and insert, return) with the holder of *)
(* the icon_cache mutex and one frame per host thread, for the claims      *)
(* about the lock.                                                         *)
(***************************************************************************)
EXTENDS Integers, Sequences, FiniteSets, TLC

(***************************************************************************)
(* Bounds of the model.                                                    *)
(***************************************************************************)
\* number of _init calls in one run (each allocates a display name, and a
\* ModeData when the provider's init succeeds)
MaxInits == 2
\* largest number of entries a provider holds
MaxEntries == 1
\* number of icon_query calls in one run
MaxIconQueries == 2
\* largest number of patterns in a token array
MaxPatterns == 2

(***************************************************************************)
(* Values of the host's binary contract (rofi's mode.h, bound through      *)
(* bindings.rs) that rofi.rs names.                                        *)
(***************************************************************************)
NULL == 0

MENU_OK == 65536
MENU_CANCEL == 131072
MENU_NEXT == 262144
MENU_CUSTOM_INPUT == 524288
MENU_ENTRY_DELETE == 1048576
MENU_QUICK_SWITCH == 2097152
MENU_CUSTOM_COMMAND == 8388608
MENU_PREVIOUS == 4194304
MENU_COMPLETE == 16777216
MENU_CUSTOM_ACTION == 268435456
MENU_LOWER_MASK == 65535

MODE_EXIT == 1000
NEXT_DIALOG == 1001
RELOAD_DIALOG == 1002
PREVIOUS_DIALOG == 1003
RESET_DIALOG == 1004

\* EntryStateFlags (rofi.rs:49-56)
Normal == 0
Urgent == 1
Markup == 8

\* scale of every IconCacheEntry (rofi.rs:257)
FixedScale == 1

\* the value of a thunk that did not return (a panic left it)
NoReturn == -1

(***************************************************************************)
(* Option<T>                                                               *)
(***************************************************************************)
None == [some |-> FALSE]

Some(v) == [some |-> TRUE, val |-> v]

(***************************************************************************)
(* Bit operations on u32.                                                  *)
(***************************************************************************)
RECURSIVE BitAnd(_, _)
BitAnd(a, b) ==
    IF a = 0 \/ b = 0 THEN 0
    ELSE (a % 2) * (b % 2) + 2 * BitAnd(a \div 2, b \div 2)

\* `x as u32` of a c_int: the value itself for the non-negative c_int values
\* the host passes (every declared MenuReturn bit lies below bit 31)
AsU32(x) == IF x >= 0 THEN x ELSE x + 2147483647 + 2147483647 + 2

\* MenuReturn::all(): the union of the declared flags (rofi.rs:33-42)
MenuReturnAll ==
    MENU_OK + MENU_CANCEL + MENU_NEXT + MENU_CUSTOM_INPUT + MENU_ENTRY_DELETE
    + MENU_QUICK_SWITCH + MENU_CUSTOM_COMMAND + MENU_PREVIOUS + MENU_COMPLETE
    + MENU_CUSTOM_ACTION

\* MenuReturn::from_bits: None when a bit outside the declared flags is set
from_bits(bits) ==
    IF BitAnd(bits, MenuReturnAll) = bits THEN Some(bits) ELSE None

(***************************************************************************)
(* CString::new(bytes): an error when the bytes hold an interior NUL.      *)
(***************************************************************************)
CStringNew(bytes) ==
    IF \E i \in 1..Len(bytes) : bytes[i] = 0 THEN None ELSE Some(bytes)

(***************************************************************************)
(* The provider behind the RofiMode trait: a list of (text, flags) rows,   *)
(* a text being the bytes of a Rust String (which may hold a NUL byte).     *)
(* What its init, result, token_match and icon_query answer is an input    *)
(* of the thunk that calls them.                                           *)
(***************************************************************************)
EntryChoices ==
    { [text |-> <<102>>, flags |-> Normal],
      [text |-> <<97, 0, 98>>, flags |-> Urgent + Markup] }

RECURSIVE SeqsUpTo(_, _)
SeqsUpTo(S, n) ==
    IF n = 0 THEN {<<>>}
    ELSE LET shorter == SeqsUpTo(S, n - 1)
         IN  shorter \cup {Append(s, x) : s \in {t \in shorter : Len(t) = n - 1}, x \in S}

Providers == {[entries |-> es] : es \in SeqsUpTo(EntryChoices, MaxEntries)}

NoMode == [entries |-> <<>>]

\* RofiMode::get_num_entries
get_num_entries(m) == Len(m.entries)

\* RofiMode::get_display_value
get_display_value(m, line) ==
    IF line < Len(m.entries)
    THEN Some(<<m.entries[line + 1].text, m.entries[line + 1].flags>>)
    ELSE None

(***************************************************************************)
(* Inputs the host and the collaborators supply.                           *)
(***************************************************************************)
\* indices the host passes: the provider's rows and one past them
Lines == 0..MaxEntries
IconLines == {0, 1}
Heights == {16, 32}
Handles == {0, 7}
StateBefore == {0, 1}
GetEntryChoices == {0, 1}

DISPLAY_NAME == <<119>>
NAME == <<110>>
NAME_KEY == <<107>>
ABI_VERSION == 6
TYPE == 1

IconKeys == [line : IconLines, height : Heights, scale : {FixedScale}]

\* the threads of the host that call into one table
Threads == {1, 2}

\* the icon_cache mutex (rofi.rs:144) is held by no thread
Free == 0

\* the frame of a thread that is in no _get_icon call
IdleFrame == [pc |-> "idle", data |-> NULL, line |-> -1, height |-> -1,
              icon_uid |-> None, answer |-> None, queried |-> FALSE,
              fetched |-> FALSE]

VARIABLES mc, heap, initCalls, iconQueryCalls, iconFetches, iconQueryTotal, aborted, ret,
          lock, calls

vars == <<mc, heap, initCalls, iconQueryCalls, iconFetches, iconQueryTotal, aborted, ret,
          lock, calls>>

(***************************************************************************)
(* The record of the last thunk call: its arguments (line, arg, before,    *)
(* patterns), what it returned (value, text, state: the *state parameter   *)
(* after the call), what it passed to the provider and what the provider   *)
(* or the icon fetcher answered (tokenv, pline, answer, uid), and which    *)
(* calls it made (called, hit, queried, fetched, got: whether it called    *)
(* rofi_icon_fetcher_get, alloc, reads).                                   *)
(***************************************************************************)
NoCall(op) ==
    [op |-> op, line |-> -1, arg |-> -1, value |-> NoReturn, text |-> <<>>,
     alloc |-> 0, before |-> -1, state |-> -1, answer |-> None, called |-> FALSE,
     tokenv |-> <<>>, pline |-> -1, patterns |-> <<>>, reads |-> 0,
     hit |-> FALSE, queried |-> FALSE, fetched |-> FALSE, got |-> FALSE,
     uid |-> None]

\* a block of the heap that was never allocated
Unallocated == [status |-> "unallocated", frees |-> 0, mode |-> NoMode, icon_cache |-> <<>>]

\* rofi_c_mode (rofi.rs:283-301): the table as constructed
rofi_c_mode ==
    [abi_version |-> ABI_VERSION, name |-> NAME, cfg_name_key |-> NAME_KEY,
     display_name |-> NULL, private_data |-> NULL, type_ |-> TYPE,
     slots |-> <<"_init", "_destroy", "_get_num_entries", "_get_display_value",
                 "_result", "_token_match", "_get_icon">>]

Init ==
    /\ mc = rofi_c_mode
    /\ heap = [a \in 1..MaxInits |-> Unallocated]
    /\ initCalls = 0
    /\ iconQueryCalls = [k \in IconKeys |-> 0]
    /\ iconFetches = [k \in IconKeys |-> <<>>]
    /\ iconQueryTotal = 0
    /\ aborted = FALSE
    /\ ret = NoCall("none")
    /\ lock = Free
    /\ calls = [t \in Threads |-> IdleFrame]

\* ModeData::init as it would be if the cache were shared between ModeData
ModeDataInitStaleCache(providerInit) ==
    IF providerInit.some
    THEN Some([mode |-> providerInit.val,
               icon_cache |-> [line |-> 0, height |-> 16, scale |-> FixedScale] :> 7])
    ELSE None

\* ModeData::init (rofi.rs:148-152)
ModeDataInit(providerInit) ==
    IF providerInit.some
    THEN Some([mode |-> providerInit.val, icon_cache |-> <<>>])
    ELSE None

\* _init as it would be if a failed init cleared the state pointer
InitThunkClearsOnFailure(providerInit) ==
    /\ ~aborted
    /\ initCalls < MaxInits
    /\ initCalls' = initCalls + 1
    /\ LET addr == initCalls + 1
           mode_data_opt == ModeDataInit(providerInit)
       IN  IF mode_data_opt.some
           THEN /\ mc' = [mc EXCEPT !.display_name = addr, !.private_data = addr]
                /\ heap' = [heap EXCEPT ![addr] =
                               [status |-> "live", frees |-> 0,
                                mode |-> mode_data_opt.val.mode,
                                icon_cache |-> mode_data_opt.val.icon_cache]]
                /\ iconQueryCalls' = [k \in IconKeys |-> 0]
                /\ iconFetches' = [k \in IconKeys |-> <<>>]
                /\ ret' = [NoCall("init") EXCEPT !.value = 1, !.alloc = 1,
                                                 !.answer = providerInit,
                                                 !.before = mc.private_data]
           ELSE /\ mc' = [mc EXCEPT !.display_name = addr, !.private_data = NULL]
                /\ heap' = heap
                /\ iconQueryCalls' = iconQueryCalls
                /\ iconFetches' = iconFetches
                /\ ret' = [NoCall("init") EXCEPT !.value = 0,
                                                 !.answer = providerInit,
                                                 !.before = mc.private_data]
    /\ UNCHANGED <<iconQueryTotal, aborted>>
    /\ UNCHANGED <<lock, calls>>

\* _init as it would be if it stored the display name in the name field
InitThunkWritesName(providerInit) ==
    /\ ~aborted
    /\ initCalls < MaxInits
    /\ initCalls' = initCalls + 1
    /\ LET addr == initCalls + 1
           mode_data_opt == ModeDataInit(providerInit)
       IN  IF mode_data_opt.some
           THEN /\ mc' = [mc EXCEPT !.name = DISPLAY_NAME, !.private_data = addr]
                /\ heap' = [heap EXCEPT ![addr] =
                               [status |-> "live", frees |-> 0,
                                mode |-> mode_data_opt.val.mode,
                                icon_cache |-> mode_data_opt.val.icon_cache]]
                /\ iconQueryCalls' = [k \in IconKeys |-> 0]
                /\ iconFetches' = [k \in IconKeys |-> <<>>]
                /\ ret' = [NoCall("init") EXCEPT !.value = 1, !.alloc = 1,
                                                 !.answer = providerInit,
                                                 !.before = mc.private_data]
           ELSE /\ mc' = [mc EXCEPT !.name = DISPLAY_NAME]
                /\ heap' = heap
                /\ iconQueryCalls' = iconQueryCalls
                /\ iconFetches' = iconFetches
                /\ ret' = [NoCall("init") EXCEPT !.value = 0,
                                                 !.answer = providerInit,
                                                 !.before = mc.private_data]
    /\ UNCHANGED <<iconQueryTotal, aborted>>
    /\ UNCHANGED <<lock, calls>>

\* _init (rofi.rs:161-173); providerInit is the outcome of T::init()
InitThunk(providerInit) ==
    /\ ~aborted
    /\ initCalls < MaxInits
    /\ initCalls' = initCalls + 1
    /\ LET addr == initCalls + 1
           mode_data_opt == ModeDataInit(providerInit)
       IN  IF mode_data_opt.some
           THEN /\ mc' = [mc EXCEPT !.display_name = addr, !.private_data = addr]
                /\ heap' = [heap EXCEPT ![addr] =
                               [status |-> "live", frees |-> 0,
                                mode |-> mode_data_opt.val.mode,
                                icon_cache |-> mode_data_opt.val.icon_cache]]
                /\ iconQueryCalls' = [k \in IconKeys |-> 0]
                /\ iconFetches' = [k \in IconKeys |-> <<>>]
                /\ ret' = [NoCall("init") EXCEPT !.value = 1, !.alloc = 1,
                                                 !.answer = providerInit,
                                                 !.before = mc.private_data]
           ELSE /\ mc' = [mc EXCEPT !.display_name = addr]
                /\ heap' = heap
                /\ iconQueryCalls' = iconQueryCalls
                /\ iconFetches' = iconFetches
                /\ ret' = [NoCall("init") EXCEPT !.value = 0,
                                                 !.answer = providerInit,
                                                 !.before = mc.private_data]
    /\ UNCHANGED <<iconQueryTotal, aborted>>
    /\ UNCHANGED <<lock, calls>>

\* _destroy as it would be without the last line, which clears the pointer
DestroyKeepsPointer ==
    /\ ~aborted
    /\ IF mc.private_data = NULL
       THEN /\ UNCHANGED <<mc, heap, iconQueryCalls, iconFetches>>
            /\ ret' = [NoCall("destroy") EXCEPT !.before = NULL, !.value = 0]
       ELSE /\ heap' = [heap EXCEPT ![mc.private_data] =
                           [status |-> "freed", frees |-> @.frees + 1,
                            mode |-> NoMode, icon_cache |-> <<>>]]
            /\ mc' = mc
            /\ iconQueryCalls' = [k \in IconKeys |-> 0]
            /\ iconFetches' = [k \in IconKeys |-> <<>>]
            /\ ret' = [NoCall("destroy") EXCEPT !.before = mc.private_data, !.value = 0]
    /\ UNCHANGED <<initCalls, iconQueryTotal, aborted>>
    /\ UNCHANGED <<lock, calls>>

\* _destroy (rofi.rs:175-183)
Destroy ==
    /\ ~aborted
    /\ IF mc.private_data = NULL
       THEN /\ UNCHANGED <<mc, heap, iconQueryCalls, iconFetches>>
            /\ ret' = [NoCall("destroy") EXCEPT !.before = NULL, !.value = 0]
       ELSE /\ heap' = [heap EXCEPT ![mc.private_data] =
                           [status |-> "freed", frees |-> @.frees + 1,
                            mode |-> NoMode, icon_cache |-> <<>>]]
            /\ mc' = [mc EXCEPT !.private_data = NULL]
            /\ iconQueryCalls' = [k \in IconKeys |-> 0]
            /\ iconFetches' = [k \in IconKeys |-> <<>>]
            /\ ret' = [NoCall("destroy") EXCEPT !.before = mc.private_data, !.value = 0]
    /\ UNCHANGED <<initCalls, iconQueryTotal, aborted>>
    /\ UNCHANGED <<lock, calls>>

\* rofi_mode::get (rofi.rs:156-158): the ModeData behind the state pointer.
\* The host calls no slot but _init and _destroy while the pointer is null.
get == heap[mc.private_data]

\* _get_num_entries (rofi.rs:185-188); the counts of the model fit a c_uint,
\* so try_into().unwrap() does not panic
GetNumEntries ==
    /\ ~aborted
    /\ mc.private_data # NULL
    /\ ret' = [NoCall("get_num_entries") EXCEPT !.value = get_num_entries(get.mode)]
    /\ UNCHANGED <<mc, heap, initCalls, iconQueryCalls, iconFetches, iconQueryTotal, aborted>>
    /\ UNCHANGED <<lock, calls>>

\* _get_display_value (rofi.rs:190-210); before is the value the host left in
\* *state and ret.state the value there after the call; the returned pointer
\* is NULL or 1 (the address of the new CString)
GetDisplayValue(selected_line, before, get_entry) ==
    /\ ~aborted
    /\ mc.private_data # NULL
    /\ LET dv == get_display_value(get.mode, selected_line)
           call == [NoCall("get_display_value") EXCEPT
                       !.line = selected_line, !.arg = get_entry, !.before = before]
       IN  IF dv.some
           THEN /\ IF get_entry = 0
                   THEN /\ ret' = [call EXCEPT !.value = NULL, !.state = dv.val[2]]
                        /\ aborted' = aborted
                   ELSE LET cs == CStringNew(dv.val[1])
                        IN  IF cs.some
                            THEN /\ ret' = [call EXCEPT !.value = 1, !.text = cs.val,
                                                        !.alloc = 1, !.state = dv.val[2]]
                                 /\ aborted' = aborted
                            ELSE /\ ret' = [call EXCEPT !.state = dv.val[2]]
                                 /\ aborted' = TRUE
           ELSE /\ ret' = [call EXCEPT !.value = NULL, !.state = before]
                /\ aborted' = aborted
    /\ UNCHANGED <<mc, heap, initCalls, iconQueryCalls, iconFetches, iconQueryTotal>>
    /\ UNCHANGED <<lock, calls>>

\* ModeMode (rofi.rs:60-68) `as c_uint`
ModeModes == {"Exit", "NextDialog", "ReloadDialog", "PreviousDialog", "ResetDialog"}

ModeModeCode(e) ==
    CASE e = "Exit" -> MODE_EXIT
      [] e = "NextDialog" -> NEXT_DIALOG
      [] e = "ReloadDialog" -> RELOAD_DIALOG
      [] e = "PreviousDialog" -> PREVIOUS_DIALOG
      [] e = "ResetDialog" -> RESET_DIALOG

\* _result (rofi.rs:212-229); answer is what the provider's result gives for
\* this action and line
Result(mretv, selected_line, answer) ==
    /\ ~aborted
    /\ mc.private_data # NULL
    /\ LET decoded == from_bits(AsU32(mretv))
           call == [NoCall("result") EXCEPT
                       !.line = selected_line, !.arg = mretv, !.answer = answer]
       IN  IF ~decoded.some
           THEN /\ ret' = call
                /\ aborted' = TRUE
           ELSE /\ ret' = [call EXCEPT
                              !.called = TRUE,
                              !.value = IF answer.some
                                        THEN ModeModeCode(answer.val)
                                        ELSE BitAnd(AsU32(mretv), MENU_LOWER_MASK)]
                /\ aborted' = aborted
    /\ UNCHANGED <<mc, heap, initCalls, iconQueryCalls, iconFetches, iconQueryTotal>>
    /\ UNCHANGED <<lock, calls>>

\* what lies in memory behind the terminator of a token array
AfterTerminator == <<13>>

\* the loop of _token_match as it would be with `if` in place of `while`
CollectTokensOnce(tokens, t, tokenv) ==
    IF tokens[t] # NULL
    THEN [tokenv |-> Append(tokenv, tokens[t]), reads |-> t + 1]
    ELSE [tokenv |-> tokenv, reads |-> t]

\* the loop of _token_match (rofi.rs:237-241): t is the position read
RECURSIVE CollectTokens(_, _, _)
CollectTokens(tokens, t, tokenv) ==
    IF tokens[t] # NULL
    THEN CollectTokens(tokens, t + 1, Append(tokenv, tokens[t]))
    ELSE [tokenv |-> tokenv, reads |-> t]

\* _token_match (rofi.rs:231-245); the array in memory is the patterns, the
\* terminator and whatever follows it; answer is the provider's token_match
TokenMatch(patterns, selected_line, answer) ==
    /\ ~aborted
    /\ mc.private_data # NULL
    /\ LET tokens == patterns \o <<NULL>> \o AfterTerminator
           walk == CollectTokens(tokens, 1, <<>>)
       IN  ret' = [NoCall("token_match") EXCEPT
                      !.line = selected_line, !.patterns = patterns,
                      !.tokenv = walk.tokenv, !.pline = selected_line,
                      !.reads = walk.reads,
                      !.called = TRUE, !.answer = Some(answer),
                      !.value = IF answer THEN 1 ELSE 0]
    /\ UNCHANGED <<mc, heap, initCalls, iconQueryCalls, iconFetches, iconQueryTotal, aborted>>
    /\ UNCHANGED <<lock, calls>>

\* rofi_icon_fetcher_get (rofi.rs:279): the surface of a uid, 100 + uid, once
\* the fetcher has loaded it, and NULL before
rofi_icon_fetcher_get(u, loaded) == IF loaded THEN 100 + u ELSE NULL

\* _get_icon as it would be without the cache lookup
GetIconNoLookup(selected_line, height, query, uid, loaded) ==
    /\ ~aborted
    /\ mc.private_data # NULL
    /\ LET entry == [line |-> selected_line, height |-> height, scale |-> FixedScale]
           icon_cache == get.icon_cache
           call == [NoCall("get_icon") EXCEPT !.line = selected_line, !.arg = height]
           surface(u) == rofi_icon_fetcher_get(u, loaded)
       IN  IF FALSE
           THEN /\ ret' = [call EXCEPT !.hit = TRUE, !.uid = Some(icon_cache[entry]),
                                       !.got = TRUE,
                                       !.value = surface(icon_cache[entry])]
                /\ UNCHANGED <<heap, iconQueryCalls, iconFetches, iconQueryTotal>>
           ELSE /\ iconQueryTotal < MaxIconQueries
                /\ iconQueryTotal' = iconQueryTotal + 1
                /\ iconQueryCalls' = [iconQueryCalls EXCEPT ![entry] = @ + 1]
                /\ IF query.some
                   THEN /\ heap' = [heap EXCEPT ![mc.private_data].icon_cache =
                                       (entry :> uid) @@ icon_cache]
                        /\ iconFetches' = [iconFetches EXCEPT ![entry] =
                               Append(@, [height |-> height, uid |-> uid])]
                        /\ ret' = [call EXCEPT !.queried = TRUE, !.fetched = TRUE,
                                               !.pline = selected_line,
                                               !.answer = query, !.got = TRUE,
                                               !.uid = Some(uid), !.value = surface(uid)]
                   ELSE /\ heap' = heap
                        /\ iconFetches' = iconFetches
                        /\ ret' = [call EXCEPT !.queried = TRUE, !.answer = query,
                                               !.pline = selected_line,
                                               !.value = NULL]
    /\ UNCHANGED <<mc, initCalls, aborted>>
    /\ UNCHANGED <<lock, calls>>

\* _get_icon as it would be if a miss without a query string stored an entry
GetIconCachesMiss(selected_line, height, query, uid, loaded) ==
    /\ ~aborted
    /\ mc.private_data # NULL
    /\ LET entry == [line |-> selected_line, height |-> height, scale |-> FixedScale]
           icon_cache == get.icon_cache
           call == [NoCall("get_icon") EXCEPT !.line = selected_line, !.arg = height]
           surface(u) == rofi_icon_fetcher_get(u, loaded)
       IN  IF entry \in DOMAIN icon_cache
           THEN /\ ret' = [call EXCEPT !.hit = TRUE, !.uid = Some(icon_cache[entry]),
                                       !.got = TRUE,
                                       !.value = surface(icon_cache[entry])]
                /\ UNCHANGED <<heap, iconQueryCalls, iconFetches, iconQueryTotal>>
           ELSE /\ iconQueryTotal < MaxIconQueries
                /\ iconQueryTotal' = iconQueryTotal + 1
                /\ iconQueryCalls' = [iconQueryCalls EXCEPT ![entry] = @ + 1]
                /\ IF query.some
                   THEN /\ heap' = [heap EXCEPT ![mc.private_data].icon_cache =
                                       (entry :> uid) @@ icon_cache]
                        /\ iconFetches' = [iconFetches EXCEPT ![entry] =
                               Append(@, [height |-> height, uid |-> uid])]
                        /\ ret' = [call EXCEPT !.queried = TRUE, !.fetched = TRUE,
                                               !.pline = selected_line,
                                               !.answer = query, !.got = TRUE,
                                               !.uid = Some(uid), !.value = surface(uid)]
                   ELSE /\ heap' = [heap EXCEPT ![mc.private_data].icon_cache =
                                       (entry :> 0) @@ icon_cache]
                        /\ iconFetches' = iconFetches
                        /\ ret' = [call EXCEPT !.queried = TRUE, !.answer = query,
                                               !.pline = selected_line,
                                               !.value = NULL]
    /\ UNCHANGED <<mc, initCalls, aborted>>
    /\ UNCHANGED <<lock, calls>>

\* _get_icon as it would be if the handle 0 were not stored
GetIconSkipsSentinel(selected_line, height, query, uid, loaded) ==
    /\ ~aborted
    /\ mc.private_data # NULL
    /\ LET entry == [line |-> selected_line, height |-> height, scale |-> FixedScale]
           icon_cache == get.icon_cache
           call == [NoCall("get_icon") EXCEPT !.line = selected_line, !.arg = height]
           surface(u) == rofi_icon_fetcher_get(u, loaded)
       IN  IF entry \in DOMAIN icon_cache
           THEN /\ ret' = [call EXCEPT !.hit = TRUE, !.uid = Some(icon_cache[entry]),
                                       !.got = TRUE,
                                       !.value = surface(icon_cache[entry])]
                /\ UNCHANGED <<heap, iconQueryCalls, iconFetches, iconQueryTotal>>
           ELSE /\ iconQueryTotal < MaxIconQueries
                /\ iconQueryTotal' = iconQueryTotal + 1
                /\ iconQueryCalls' = [iconQueryCalls EXCEPT ![entry] = @ + 1]
                /\ IF query.some
                   THEN /\ heap' = IF uid = 0 THEN heap
                                   ELSE [heap EXCEPT ![mc.private_data].icon_cache =
                                            (entry :> uid) @@ icon_cache]
                        /\ iconFetches' = [iconFetches EXCEPT ![entry] =
                               Append(@, [height |-> height, uid |-> uid])]
                        /\ ret' = [call EXCEPT !.queried = TRUE, !.fetched = TRUE,
                                               !.pline = selected_line,
                                               !.answer = query, !.got = TRUE,
                                               !.uid = Some(uid), !.value = surface(uid)]
                   ELSE /\ heap' = heap
                        /\ iconFetches' = iconFetches
                        /\ ret' = [call EXCEPT !.queried = TRUE, !.answer = query,
                                               !.pline = selected_line,
                                               !.value = NULL]
    /\ UNCHANGED <<mc, initCalls, aborted>>
    /\ UNCHANGED <<lock, calls>>

\* _get_icon as it would be if an insert dropped the other entries
GetIconEvicts(selected_line, height, query, uid, loaded) ==
    /\ ~aborted
    /\ mc.private_data # NULL
    /\ LET entry == [line |-> selected_line, height |-> height, scale |-> FixedScale]
           icon_cache == get.icon_cache
           call == [NoCall("get_icon") EXCEPT !.line = selected_line, !.arg = height]
           surface(u) == rofi_icon_fetcher_get(u, loaded)
       IN  IF entry \in DOMAIN icon_cache
           THEN /\ ret' = [call EXCEPT !.hit = TRUE, !.uid = Some(icon_cache[entry]),
                                       !.got = TRUE,
                                       !.value = surface(icon_cache[entry])]
                /\ UNCHANGED <<heap, iconQueryCalls, iconFetches, iconQueryTotal>>
           ELSE /\ iconQueryTotal < MaxIconQueries
                /\ iconQueryTotal' = iconQueryTotal + 1
                /\ iconQueryCalls' = [iconQueryCalls EXCEPT ![entry] = @ + 1]
                /\ IF query.some
                   THEN /\ heap' = [heap EXCEPT ![mc.private_data].icon_cache =
                                       (entry :> uid)]
                        /\ iconFetches' = [iconFetches EXCEPT ![entry] =
                               Append(@, [height |-> height, uid |-> uid])]
                        /\ ret' = [call EXCEPT !.queried = TRUE, !.fetched = TRUE,
                                               !.pline = selected_line,
                                               !.answer = query, !.got = TRUE,
                                               !.uid = Some(uid), !.value = surface(uid)]
                   ELSE /\ heap' = heap
                        /\ iconFetches' = iconFetches
                        /\ ret' = [call EXCEPT !.queried = TRUE, !.answer = query,
                                               !.pline = selected_line,
                                               !.value = NULL]
    /\ UNCHANGED <<mc, initCalls, aborted>>
    /\ UNCHANGED <<lock, calls>>

\* _get_icon as it would be if icon_query were called before the lookup
GetIconQueriesFirst(selected_line, height, query, uid, loaded) ==
    /\ ~aborted
    /\ mc.private_data # NULL
    /\ LET entry == [line |-> selected_line, height |-> height, scale |-> FixedScale]
           icon_cache == get.icon_cache
           call == [NoCall("get_icon") EXCEPT !.line = selected_line, !.arg = height]
           surface(u) == rofi_icon_fetcher_get(u, loaded)
       IN  IF entry \in DOMAIN icon_cache
           THEN /\ ret' = [call EXCEPT !.hit = TRUE, !.uid = Some(icon_cache[entry]),
                                       !.got = TRUE, !.queried = TRUE,
                                       !.pline = selected_line, !.answer = query,
                                       !.value = surface(icon_cache[entry])]
                /\ iconQueryTotal < MaxIconQueries
                /\ iconQueryTotal' = iconQueryTotal + 1
                /\ iconQueryCalls' = [iconQueryCalls EXCEPT ![entry] = @ + 1]
                /\ UNCHANGED <<heap, iconFetches>>
           ELSE /\ iconQueryTotal < MaxIconQueries
                /\ iconQueryTotal' = iconQueryTotal + 1
                /\ iconQueryCalls' = [iconQueryCalls EXCEPT ![entry] = @ + 1]
                /\ IF query.some
                   THEN /\ heap' = [heap EXCEPT ![mc.private_data].icon_cache =
                                       (entry :> uid) @@ icon_cache]
                        /\ iconFetches' = [iconFetches EXCEPT ![entry] =
                               Append(@, [height |-> height, uid |-> uid])]
                        /\ ret' = [call EXCEPT !.queried = TRUE, !.fetched = TRUE,
                                               !.pline = selected_line,
                                               !.answer = query, !.got = TRUE,
                                               !.uid = Some(uid), !.value = surface(uid)]
                   ELSE /\ heap' = heap
                        /\ iconFetches' = iconFetches
                        /\ ret' = [call EXCEPT !.queried = TRUE, !.answer = query,
                                               !.pline = selected_line,
                                               !.value = NULL]
    /\ UNCHANGED <<mc, initCalls, aborted>>
    /\ UNCHANGED <<lock, calls>>

\* _get_icon as it would be if the key left the height out
GetIconKeyedByLine(selected_line, height, query, uid, loaded) ==
    /\ ~aborted
    /\ mc.private_data # NULL
    /\ LET entry == [line |-> selected_line,
                     height |-> CHOOSE h \in Heights : \A g \in Heights : h <= g,
                     scale |-> FixedScale]
           icon_cache == get.icon_cache
           call == [NoCall("get_icon") EXCEPT !.line = selected_line, !.arg = height]
           surface(u) == rofi_icon_fetcher_get(u, loaded)
       IN  IF entry \in DOMAIN icon_cache
           THEN /\ ret' = [call EXCEPT !.hit = TRUE, !.uid = Some(icon_cache[entry]),
                                       !.got = TRUE,
                                       !.value = surface(icon_cache[entry])]
                /\ UNCHANGED <<heap, iconQueryCalls, iconFetches, iconQueryTotal>>
           ELSE /\ iconQueryTotal < MaxIconQueries
                /\ iconQueryTotal' = iconQueryTotal + 1
                /\ iconQueryCalls' = [iconQueryCalls EXCEPT ![entry] = @ + 1]
                /\ IF query.some
                   THEN /\ heap' = [heap EXCEPT ![mc.private_data].icon_cache =
                                       (entry :> uid) @@ icon_cache]
                        /\ iconFetches' = [iconFetches EXCEPT ![entry] =
                               Append(@, [height |-> height, uid |-> uid])]
                        /\ ret' = [call EXCEPT !.queried = TRUE, !.fetched = TRUE,
                                               !.pline = selected_line,
                                               !.answer = query, !.got = TRUE,
                                               !.uid = Some(uid), !.value = surface(uid)]
                   ELSE /\ heap' = heap
                        /\ iconFetches' = iconFetches
                        /\ ret' = [call EXCEPT !.queried = TRUE, !.answer = query,
                                               !.pline = selected_line,
                                               !.value = NULL]
    /\ UNCHANGED <<mc, initCalls, aborted>>
    /\ UNCHANGED <<lock, calls>>

\* _get_icon (rofi.rs:247-281), run from call to return; query is the
\* provider's icon_query answer, uid what rofi_icon_fetcher_query gives (it is
\* handed query.as_mut_ptr(), bytes without a terminating NUL, and reads on
\* into whatever follows them: any uid can come back), loaded whether
\* rofi_icon_fetcher_get has a surface for the uid.  iconFetches logs the
\* height passed to and the uid returned by every rofi_icon_fetcher_query call.
GetIcon(selected_line, height, query, uid, loaded) ==
    /\ ~aborted
    /\ mc.private_data # NULL
    /\ LET entry == [line |-> selected_line, height |-> height, scale |-> FixedScale]
           icon_cache == get.icon_cache
           call == [NoCall("get_icon") EXCEPT !.line = selected_line, !.arg = height]
           surface(u) == rofi_icon_fetcher_get(u, loaded)
       IN  IF entry \in DOMAIN icon_cache
           THEN /\ ret' = [call EXCEPT !.hit = TRUE, !.uid = Some(icon_cache[entry]),
                                       !.got = TRUE,
                                       !.value = surface(icon_cache[entry])]
                /\ UNCHANGED <<heap, iconQueryCalls, iconFetches, iconQueryTotal>>
           ELSE /\ iconQueryTotal < MaxIconQueries
                /\ iconQueryTotal' = iconQueryTotal + 1
                /\ iconQueryCalls' = [iconQueryCalls EXCEPT ![entry] = @ + 1]
                /\ IF query.some
                   THEN /\ heap' = [heap EXCEPT ![mc.private_data].icon_cache =
                                       (entry :> uid) @@ icon_cache]
                        /\ iconFetches' = [iconFetches EXCEPT ![entry] =
                               Append(@, [height |-> height, uid |-> uid])]
                        /\ ret' = [call EXCEPT !.queried = TRUE, !.fetched = TRUE,
                                               !.pline = selected_line,
                                               !.answer = query, !.got = TRUE,
                                               !.uid = Some(uid), !.value = surface(uid)]
                   ELSE /\ heap' = heap
                        /\ iconFetches' = iconFetches
                        /\ ret' = [call EXCEPT !.queried = TRUE, !.answer = query,
                                               !.pline = selected_line,
                                               !.value = NULL]
    /\ UNCHANGED <<mc, initCalls, aborted>>
    /\ UNCHANGED <<lock, calls>>

(***************************************************************************)
(* _get_icon step by step.  calls[t] is the frame of thread t: where it is *)
(* in _get_icon (pc), the ModeData it works on (data), its key (line,      *)
(* height), its icon_uid, and what it called.  A frame keeps the values of *)
(* its last call after the call has returned.                              *)
(***************************************************************************)
\* no thread is in a _get_icon call
AllIdle == \A t \in Threads : calls[t].pc = "idle"

\* the key of the call of thread t (rofi.rs:254-258)
EntryOf(t) == [line |-> calls[t].line, height |-> calls[t].height, scale |-> FixedScale]

\* rofi.rs:247-258: thread t enters _get_icon and builds its key
IconCall(t, selected_line, height) ==
    /\ ~aborted
    /\ mc.private_data # NULL
    /\ calls[t].pc = "idle"
    /\ \/ [line |-> selected_line, height |-> height, scale |-> FixedScale]
             \in DOMAIN get.icon_cache
       \/ iconQueryTotal + Cardinality({u \in Threads : calls[u].pc # "idle"})
             < MaxIconQueries
    /\ calls' = [calls EXCEPT ![t] =
                    [IdleFrame EXCEPT !.pc = "lock", !.data = mc.private_data,
                                      !.line = selected_line, !.height = height]]
    /\ UNCHANGED <<mc, heap, initCalls, iconQueryCalls, iconFetches, iconQueryTotal,
                   aborted, ret, lock>>

\* the lock step as it would be if the cache had no mutex
IconLockNoWait(t) ==
    /\ calls[t].pc = "lock"
    /\ lock' = t
    /\ calls' = [calls EXCEPT ![t].pc = "lookup"]
    /\ UNCHANGED <<mc, heap, initCalls, iconQueryCalls, iconFetches, iconQueryTotal,
                   aborted, ret>>

\* rofi.rs:263: m.icon_cache.lock(); the thread waits while another holds it
IconLock(t) ==
    /\ calls[t].pc = "lock"
    /\ lock = Free
    /\ lock' = t
    /\ calls' = [calls EXCEPT ![t].pc = "lookup"]
    /\ UNCHANGED <<mc, heap, initCalls, iconQueryCalls, iconFetches, iconQueryTotal,
                   aborted, ret>>

\* rofi.rs:266-267: icon_cache.get(&entry)
IconLookup(t) ==
    /\ calls[t].pc = "lookup"
    /\ LET icon_cache == heap[calls[t].data].icon_cache
       IN  IF EntryOf(t) \in DOMAIN icon_cache
           THEN calls' = [calls EXCEPT ![t].icon_uid = Some(icon_cache[EntryOf(t)]),
                                       ![t].pc = "get"]
           ELSE calls' = [calls EXCEPT ![t].pc = "query"]
    /\ UNCHANGED <<mc, heap, initCalls, iconQueryCalls, iconFetches, iconQueryTotal,
                   aborted, ret, lock>>

\* rofi.rs:268: m.mode.icon_query(selected_line) answers query
IconQuery(t, query) ==
    /\ calls[t].pc = "query"
    /\ iconQueryTotal' = iconQueryTotal + 1
    /\ iconQueryCalls' = [iconQueryCalls EXCEPT ![EntryOf(t)] = @ + 1]
    /\ calls' = [calls EXCEPT ![t].queried = TRUE, ![t].answer = query,
                              ![t].pc = IF query.some THEN "fetch" ELSE "get"]
    /\ UNCHANGED <<mc, heap, initCalls, iconFetches, aborted, ret, lock>>

\* rofi.rs:269-275: rofi_icon_fetcher_query answers uid, which is inserted
\* (HashMap::insert replaces an entry that is there)
IconFetch(t, uid) ==
    /\ calls[t].pc = "fetch"
    /\ iconFetches' = [iconFetches EXCEPT ![EntryOf(t)] =
                          Append(@, [height |-> calls[t].height, uid |-> uid])]
    /\ heap' = [heap EXCEPT ![calls[t].data].icon_cache = (EntryOf(t) :> uid) @@ @]
    /\ calls' = [calls EXCEPT ![t].fetched = TRUE, ![t].icon_uid = Some(uid),
                              ![t].pc = "get"]
    /\ UNCHANGED <<mc, initCalls, iconQueryCalls, iconQueryTotal, aborted, ret, lock>>

\* the return step as it would be if the miss without a query string kept the
\* guard alive
IconReturnKeepsLock(t, loaded) ==
    /\ calls[t].pc = "get"
    /\ LET f == calls[t]
           call == [NoCall("get_icon") EXCEPT
                       !.line = f.line, !.arg = f.height, !.hit = ~f.queried,
                       !.queried = f.queried, !.fetched = f.fetched,
                       !.answer = f.answer,
                       !.pline = IF f.queried THEN f.line ELSE -1,
                       !.uid = f.icon_uid]
       IN  ret' = IF f.icon_uid.some
                  THEN [call EXCEPT !.got = TRUE,
                           !.value = rofi_icon_fetcher_get(f.icon_uid.val, loaded)]
                  ELSE [call EXCEPT !.value = NULL]
    /\ lock' = IF lock = t /\ calls[t].icon_uid.some THEN Free ELSE lock
    /\ calls' = [calls EXCEPT ![t].pc = "idle"]
    /\ UNCHANGED <<mc, heap, initCalls, iconQueryCalls, iconFetches, iconQueryTotal,
                   aborted>>

\* rofi.rs:278-281: icon_uid.map(rofi_icon_fetcher_get).unwrap_or(null) is
\* returned, and the guard icon_cache goes out of scope, which unlocks
IconReturn(t, loaded) ==
    /\ calls[t].pc = "get"
    /\ LET f == calls[t]
           call == [NoCall("get_icon") EXCEPT
                       !.line = f.line, !.arg = f.height, !.hit = ~f.queried,
                       !.queried = f.queried, !.fetched = f.fetched,
                       !.answer = f.answer,
                       !.pline = IF f.queried THEN f.line ELSE -1,
                       !.uid = f.icon_uid]
       IN  ret' = IF f.icon_uid.some
                  THEN [call EXCEPT !.got = TRUE,
                           !.value = rofi_icon_fetcher_get(f.icon_uid.val, loaded)]
                  ELSE [call EXCEPT !.value = NULL]
    /\ lock' = IF lock = t THEN Free ELSE lock
    /\ calls' = [calls EXCEPT ![t].pc = "idle"]
    /\ UNCHANGED <<mc, heap, initCalls, iconQueryCalls, iconFetches, iconQueryTotal,
                   aborted>>


(***************************************************************************)
(* The host's calls.  An environment gives the sets the inputs of the      *)
(* calls are drawn from; every specification runs every thunk, and each    *)
(* widens the inputs of the thunk its claims are about.                    *)
(***************************************************************************)
PatternPtrs == {11, 12}
Queries == {None, Some(<<105>>)}
ActionChoices ==
    {MENU_OK, MENU_CANCEL, MENU_NEXT, MENU_CUSTOM_INPUT, MENU_ENTRY_DELETE,
     MENU_QUICK_SWITCH, MENU_CUSTOM_COMMAND, MENU_PREVIOUS, MENU_COMPLETE,
     MENU_CUSTOM_ACTION, MENU_OK + MENU_CUSTOM_ACTION}
LowerChoices == {0, 1, MENU_LOWER_MASK}
Answers == {None} \cup {Some(e) : e \in ModeModes}
PlainProvider == [entries |-> <<[text |-> <<102>>, flags |-> Normal]>>]

NarrowEnv ==
    [inits |-> {None, Some(PlainProvider)},
     lines |-> {0}, befores |-> {0}, getEntries |-> {1},
     mretvs |-> {MENU_OK}, answers |-> {None},
     patterns |-> {<<11>>}, matches |-> {TRUE},
     iconLines |-> {0}, heights |-> {16}, queries |-> {Some(<<105>>)},
     handles |-> {7}, loaded |-> {TRUE}]

LifeEnv ==
    [NarrowEnv EXCEPT !.inits = {None, Some(PlainProvider), Some([entries |-> <<>>])},
                      !.lines = Lines, !.getEntries = GetEntryChoices,
                      !.mretvs = {MENU_OK, MENU_CUSTOM_COMMAND + 1},
                      !.answers = {None, Some("Exit")},
                      !.patterns = {<<>>, <<11, 12>>},
                      !.queries = Queries]

DisplayEnv ==
    [NarrowEnv EXCEPT !.inits = {None} \cup {Some(m) : m \in Providers},
                      !.lines = Lines, !.befores = StateBefore,
                      !.getEntries = GetEntryChoices]

ResultEnv ==
    [NarrowEnv EXCEPT !.inits = {Some(PlainProvider)}, !.lines = {0, 1},
                      !.mretvs = {a + low : a \in ActionChoices, low \in LowerChoices},
                      !.answers = Answers]

TokenEnv ==
    [NarrowEnv EXCEPT !.lines = Lines,
                      !.patterns = SeqsUpTo(PatternPtrs, MaxPatterns),
                      !.matches = BOOLEAN]

IconEnv ==
    [NarrowEnv EXCEPT !.inits = {Some(PlainProvider)},
                      !.iconLines = IconLines, !.heights = Heights,
                      !.queries = Queries, !.handles = Handles,
                      !.loaded = BOOLEAN]

LockEnv ==
    [NarrowEnv EXCEPT !.inits = {Some(PlainProvider)},
                      !.heights = Heights, !.queries = Queries,
                      !.handles = Handles]

NextOn(env) ==
    \/ \E p \in env.inits : InitThunk(p)
    \/ Destroy
    \/ GetNumEntries
    \/ \E l \in env.lines, b \in env.befores, g \in env.getEntries :
          GetDisplayValue(l, b, g)
    \/ \E m \in env.mretvs, l \in env.lines, ans \in env.answers : Result(m, l, ans)
    \/ \E ps \in env.patterns, l \in env.lines, ans \in env.matches :
          TokenMatch(ps, l, ans)
    \/ \E l \in env.iconLines, h \in env.heights, q \in env.queries,
          u \in env.handles, ld \in env.loaded : GetIcon(l, h, q, u, ld)

\* the host's calls with _get_icon step by step; a call starts only when no
\* _get_icon call is in progress, but that with parallel a thread may enter
\* _get_icon while another thread is in it
NextSteps(env, parallel) ==
    \/ AllIdle /\ \E p \in env.inits : InitThunk(p)
    \/ AllIdle /\ Destroy
    \/ AllIdle /\ GetNumEntries
    \/ AllIdle /\ \E l \in env.lines, b \in env.befores, g \in env.getEntries :
                      GetDisplayValue(l, b, g)
    \/ AllIdle /\ \E m \in env.mretvs, l \in env.lines, ans \in env.answers :
                      Result(m, l, ans)
    \/ AllIdle /\ \E ps \in env.patterns, l \in env.lines, ans \in env.matches :
                      TokenMatch(ps, l, ans)
    \/ \E t \in Threads, l \in env.iconLines, h \in env.heights :
          (parallel \/ AllIdle) /\ IconCall(t, l, h)
    \/ \E t \in Threads : IconLock(t)
    \/ \E t \in Threads : IconLookup(t)
    \/ \E t \in Threads, q \in env.queries : IconQuery(t, q)
    \/ \E t \in Threads, u \in env.handles : IconFetch(t, u)
    \/ \E t \in Threads, ld \in env.loaded : IconReturn(t, ld)

Next == NextOn(LifeEnv)

NextLock == NextSteps(LockEnv, FALSE)

NextParallel == NextSteps(LockEnv, TRUE)

NextDisplay == NextOn(DisplayEnv)

NextResult == NextOn(ResultEnv)

NextToken == NextOn(TokenEnv)

NextIcon == NextOn(IconEnv)

\* init, destroy and the frame of the table
Spec == Init /\ [][Next]_vars

\* get_display_value over every provider, index and request
SpecDisplay == Init /\ [][NextDisplay]_vars

\* result over action bitmasks and provider answers
SpecResult == Init /\ [][NextResult]_vars

\* token_match over pattern arrays
SpecToken == Init /\ [][NextToken]_vars

\* get_icon over keys, icon_query answers and handles
SpecIcon == Init /\ [][NextIcon]_vars
(***************************************************************************)
(* The claims.                                                             *)
(***************************************************************************)
Addrs == 1..MaxInits

\* get_icon step by step under a host that makes one call at a time
SpecLock == Init /\ [][NextLock]_vars

\* get_icon step by step under a host whose threads call get_icon at once
SpecParallel == Init /\ [][NextParallel]_vars

\* C1: a destroy call on a null state pointer changes nothing and frees
\* nothing; a destroy call on a non-null pointer frees that ModeData once,
\* touches no other block and leaves the pointer null; no block is ever freed
\* twice.
C1_DestroyFreesOnce ==
    /\ [](\A a \in Addrs : heap[a].frees <= 1)
    /\ [][ret'.op = "destroy" =>
            IF mc.private_data = NULL
            THEN mc' = mc /\ heap' = heap
            ELSE /\ heap[mc.private_data].status = "live"
                 /\ heap'[mc.private_data].status = "freed"
                 /\ heap'[mc.private_data].frees = heap[mc.private_data].frees + 1
                 /\ \A a \in Addrs \ {mc.private_data} : heap'[a] = heap[a]
                 /\ mc'.private_data = NULL]_vars

\* C1 witness: a destroy call found the pointer null after an earlier destroy
\* had freed a block.
C1_Witness ==
    /\ ret.op = "destroy"
    /\ ret.before = NULL
    /\ \E a \in Addrs : heap[a].status = "freed" /\ heap[a].frees = 1

\* C2: the init thunk returns 1 and points the state pointer at a new ModeData
\* holding the provider and an empty icon cache exactly when the provider's
\* init succeeds; when it fails the thunk returns 0, the heap is unchanged and
\* the state pointer is left as it was.
C2_InitOutcome ==
    [][ret'.op = "init" =>
          IF ret'.answer.some
          THEN /\ ret'.value = 1
               /\ mc'.private_data # NULL
               /\ heap[mc'.private_data].status = "unallocated"
               /\ heap'[mc'.private_data] =
                     [status |-> "live", frees |-> 0, mode |-> ret'.answer.val,
                      icon_cache |-> <<>>]
               /\ \A a \in Addrs \ {mc'.private_data} : heap'[a] = heap[a]
          ELSE /\ ret'.value = 0
               /\ heap' = heap
               /\ mc'.private_data = mc.private_data]_vars

\* C2 witness: a failed init after a successful one left the pointer in place.
C2_Witness ==
    /\ ret.op = "init"
    /\ ret.value = 0
    /\ ~ret.answer.some
    /\ mc.private_data # NULL
    /\ heap[mc.private_data].status = "live"

\* C3: every ModeData a successful init allocated is freed at most once, and
\* after a destroy call none is left allocated.
C3_ReclaimedExactlyOnce ==
    /\ \A a \in Addrs : heap[a].frees <= 1
    /\ ret.op = "destroy" => \A a \in Addrs : heap[a].status # "live"
\* what the provider of the current ModeData gives for the index of the last
\* get_display_value call
LastDisplayValue == get_display_value(heap[mc.private_data].mode, ret.line)

\* C4: for an index the provider has a display value for, the thunk writes the
\* provider's flags to *state whether or not text is requested; with
\* get_entry = 0 it returns no string and allocates none, with get_entry # 0
\* it returns a newly allocated copy of the provider's text.
C4_FlagsOnlyMatchesFull ==
    (ret.op = "get_display_value" /\ LastDisplayValue.some) =>
        /\ ret.state = LastDisplayValue.val[2]
        /\ ret.arg = 0 => (ret.value = NULL /\ ret.alloc = 0)
        /\ ret.arg # 0 =>
              (ret.value # NULL /\ ret.alloc = 1 /\ ret.text = LastDisplayValue.val[1])

\* C5: for an index the provider has no display value for, the thunk returns
\* no text and leaves the default flags (Normal) in *state, whatever *state
\* held before the call.
C5_OutOfRangeDefaultFlags ==
    (ret.op = "get_display_value" /\ ~LastDisplayValue.some) =>
        (ret.value = NULL /\ ret.alloc = 0 /\ ret.state = Normal)
\* the cache key of the last get_icon call
LastIconKey == [line |-> ret.line, height |-> ret.arg, scale |-> FixedScale]

\* C6 as stated: whenever a key has a handle in the cache, the number of
\* icon_query calls made for that key on this ModeData is 1.
C6_QueryCountStaysOne ==
    mc.private_data # NULL =>
        \A k \in DOMAIN heap[mc.private_data].icon_cache : iconQueryCalls[k] = 1

\* C6 amended: while the same ModeData stays in place, a key that has a handle
\* keeps that handle, no step makes another icon_query call for it (its call
\* count stays what it was when the handle was resolved), and a get_icon call
\* with that key uses the stored handle.
C6_ResolvedKeyNotQueriedAgain ==
    [][(mc.private_data # NULL /\ mc'.private_data = mc.private_data) =>
          \A k \in DOMAIN heap[mc.private_data].icon_cache :
              /\ k \in DOMAIN heap'[mc.private_data].icon_cache
              /\ heap'[mc.private_data].icon_cache[k] = heap[mc.private_data].icon_cache[k]
              /\ iconQueryCalls'[k] = iconQueryCalls[k]
              /\ (ret'.op = "get_icon" /\ LastIconKey' = k) =>
                    /\ ~ret'.queried
                    /\ ~ret'.fetched
                    /\ ret'.uid = Some(heap[mc.private_data].icon_cache[k])]_vars

\* C6 witness: a get_icon call was answered from the cache for a key whose
\* handle was resolved by the second icon_query call.
C6_Witness ==
    /\ ret.op = "get_icon"
    /\ ret.hit
    /\ mc.private_data # NULL
    /\ LastIconKey \in DOMAIN heap[mc.private_data].icon_cache
    /\ ret.uid = Some(heap[mc.private_data].icon_cache[LastIconKey])
    /\ iconQueryCalls[LastIconKey] = 2

\* C7: a get_icon call for a key that has no cache entry calls icon_query
\* (once more for that key); when icon_query returns nothing the call returns
\* NULL, does not call the icon fetcher and leaves the cache without an entry
\* for the key, so the next call with the key is a miss again.
C7_NoQueryStringNoEntry ==
    [][(ret'.op = "get_icon" /\ mc.private_data # NULL
        /\ LastIconKey' \notin DOMAIN heap[mc.private_data].icon_cache) =>
          /\ ret'.queried
          /\ iconQueryCalls'[LastIconKey'] = iconQueryCalls[LastIconKey'] + 1
          /\ ~ret'.answer.some =>
                /\ ret'.value = NULL
                /\ ret'.uid = None
                /\ ~ret'.fetched
                /\ heap' = heap]_vars

\* C7 witness: icon_query returned nothing for the second time for one key,
\* and the key still has no entry.
C7_Witness ==
    /\ ret.op = "get_icon"
    /\ ret.queried
    /\ ~ret.answer.some
    /\ ret.value = NULL
    /\ iconQueryCalls[LastIconKey] = 2
    /\ LastIconKey \notin DOMAIN heap[mc.private_data].icon_cache

\* C8: when the provider's result gives no override for the action, the result
\* thunk returns the low-order bits (the bits of MENU_LOWER_MASK) of the
\* bitmask the host passed.
C8_PassThrough ==
    (ret.op = "result" /\ ~ret.answer.some) =>
        ret.value = ret.arg % (MENU_LOWER_MASK + 1)

\* C9: the token-match thunk reads the n pattern pointers and the terminator
\* and nothing behind it, passes exactly the n patterns in their order and the
\* given index to the provider, and returns 1 for true and 0 for false.
C9_TokenMatchDelegates ==
    ret.op = "token_match" =>
        /\ ret.reads = Len(ret.patterns) + 1
        /\ ret.tokenv = ret.patterns
        /\ ret.pline = ret.line
        /\ ret.value = (IF ret.answer.val THEN 1 ELSE 0)

\* C9 witness: an array of two distinct patterns was passed on whole, and the
\* provider answered false.
C9_Witness ==
    /\ ret.op = "token_match"
    /\ ret.patterns = <<12, 11>>
    /\ ret.tokenv = <<12, 11>>
    /\ ret.reads = 3
    /\ ret.value = 0

\* C10 as stated: every field of the table but the state pointer has the
\* value rofi_c_mode gave it.
C10_OnlyStatePointerChanges ==
    \A f \in DOMAIN mc \ {"private_data"} : mc[f] = rofi_c_mode[f]

\* C10 amended: every field but the state pointer and the display name has the
\* value rofi_c_mode gave it; only init changes the display name, and only
\* init and destroy change the table at all.
C10_OnlyPointerAndDisplayNameChange ==
    /\ [](\A f \in DOMAIN mc \ {"private_data", "display_name"} : mc[f] = rofi_c_mode[f])
    /\ [][ret'.op # "init" => mc'.display_name = mc.display_name]_vars
    /\ [][ret'.op \notin {"init", "destroy"} => mc' = mc]_vars

\* C10 witness: after an init that set the pointer and the display name, a
\* get_icon call ran on the table.
C10_Witness ==
    /\ ret.op = "get_icon"
    /\ mc.private_data # NULL
    /\ mc.display_name # NULL
    /\ mc.display_name # rofi_c_mode.display_name

\* the icon cache of the ModeData the state pointer points to
Cache == heap[mc.private_data].icon_cache

\* the uid the last rofi_icon_fetcher_query call for key k returned
LastFetched(k) == iconFetches[k][Len(iconFetches[k])].uid

\* C11: when icon_query returns a query string, the get_icon call makes one
\* rofi_icon_fetcher_query call, stores the uid it returns under the key
\* unchanged, whatever it is (0 included), and uses it; while the same
\* ModeData stays in place no step makes another rofi_icon_fetcher_query call
\* for a key that has an entry, and the entry keeps its uid.
C11_FetchedHandleStoredAsIs ==
    [][(mc.private_data # NULL /\ mc'.private_data = mc.private_data) =>
          /\ (ret'.op = "get_icon" /\ ret'.queried /\ ret'.answer.some) =>
                /\ ret'.fetched
                /\ Len(iconFetches'[LastIconKey']) = Len(iconFetches[LastIconKey']) + 1
                /\ LastIconKey' \in DOMAIN Cache'
                /\ Cache'[LastIconKey'] =
                      iconFetches'[LastIconKey'][Len(iconFetches'[LastIconKey'])].uid
                /\ ret'.uid = Some(Cache'[LastIconKey'])
          /\ \A k \in DOMAIN Cache :
                /\ iconFetches'[k] = iconFetches[k]
                /\ k \in DOMAIN Cache'
                /\ Cache'[k] = Cache[k]
                /\ (ret'.op = "get_icon" /\ LastIconKey' = k) =>
                      (~ret'.fetched /\ ret'.uid = Some(Cache[k]))]_vars

\* C11 witness: a get_icon call was answered from the cache with the uid 0
\* that the one rofi_icon_fetcher_query call for the key had returned.
C11_Witness ==
    /\ ret.op = "get_icon"
    /\ ret.hit
    /\ ~ret.fetched
    /\ ret.uid = Some(0)
    /\ Cache[LastIconKey] = 0
    /\ iconFetches[LastIconKey] = <<[height |-> ret.arg, uid |-> 0]>>

\* C12: while a ModeData is allocated its cache only grows: every entry stays
\* as it is; the only step that changes the cache is a get_icon miss whose
\* icon_query returned a query string, and it adds one entry, for the key of
\* the call; get_num_entries, get_display_value, result and token_match leave
\* the heap as it is.
C12_CacheAppendOnly ==
    [][/\ \A a \in Addrs :
              (heap[a].status = "live" /\ heap'[a].status = "live") =>
                  /\ \A k \in DOMAIN heap[a].icon_cache :
                        /\ k \in DOMAIN heap'[a].icon_cache
                        /\ heap'[a].icon_cache[k] = heap[a].icon_cache[k]
                  /\ heap'[a].icon_cache # heap[a].icon_cache =>
                        /\ a = mc.private_data
                        /\ ret'.op = "get_icon"
                        /\ ret'.queried
                        /\ ret'.answer.some
                        /\ LastIconKey' \notin DOMAIN heap[a].icon_cache
                        /\ DOMAIN heap'[a].icon_cache =
                              DOMAIN heap[a].icon_cache \cup {LastIconKey'}
       /\ ret'.op \in {"get_num_entries", "get_display_value", "result", "token_match"} =>
              heap' = heap]_vars

\* C12 witness: a get_display_value call ran on a ModeData whose cache holds
\* two entries.
C12_Witness ==
    /\ ret.op = "get_display_value"
    /\ mc.private_data # NULL
    /\ Cardinality(DOMAIN Cache) = 2

\* C13 as stated: a get_icon call answered from the cache calls neither
\* icon_query nor rofi_icon_fetcher_query nor rofi_icon_fetcher_get.
C13_HitCallsNothing ==
    (ret.op = "get_icon" /\ ret.hit) =>
        (~ret.queried /\ ~ret.fetched /\ ~ret.got)

\* C13 amended: a get_icon call for a key that has an entry calls neither
\* icon_query nor rofi_icon_fetcher_query and leaves the cache as it is; it
\* passes the stored uid to rofi_icon_fetcher_get and returns what that
\* gives, the surface of the uid or NULL.
C13_HitOnlyGetsSurface ==
    [][(ret'.op = "get_icon" /\ mc.private_data # NULL
        /\ LastIconKey' \in DOMAIN Cache) =>
          /\ ret'.hit
          /\ ~ret'.queried
          /\ ~ret'.fetched
          /\ iconQueryCalls' = iconQueryCalls
          /\ iconFetches' = iconFetches
          /\ heap' = heap
          /\ ret'.got
          /\ ret'.uid = Some(Cache[LastIconKey'])
          /\ ret'.value \in {NULL, rofi_icon_fetcher_get(Cache[LastIconKey'], TRUE)}]_vars

\* C13 witness: a get_icon call answered from the cache returned the surface
\* rofi_icon_fetcher_get gave for the stored uid.
C13_Witness ==
    /\ ret.op = "get_icon"
    /\ ret.hit
    /\ ret.got
    /\ ret.uid = Some(7)
    /\ ret.value = rofi_icon_fetcher_get(7, TRUE)
    /\ ret.value # NULL

\* C14: when the provider's result gives an override mode, the result thunk
\* returns the code of that mode, whatever the bitmask the host passed.
C14_OverrideWins ==
    (ret.op = "result" /\ ret.answer.some) =>
        ret.value = CASE ret.answer.val = "Exit" -> MODE_EXIT
                      [] ret.answer.val = "NextDialog" -> NEXT_DIALOG
                      [] ret.answer.val = "ReloadDialog" -> RELOAD_DIALOG
                      [] ret.answer.val = "PreviousDialog" -> PREVIOUS_DIALOG
                      [] ret.answer.val = "ResetDialog" -> RESET_DIALOG

\* C15: the key of a get_icon call is (index, height, scale 1).  A call for a
\* key without an entry calls icon_query with the call's index and, given a
\* query string, rofi_icon_fetcher_query with the call's height, and stores
\* the uid under its own key, next to the entries of the other heights.
\* Every rofi_icon_fetcher_query call logged for a key was made with the
\* key's height, every entry holds the uid fetched for its own key, and the
\* uid a call uses is one fetched for the call's own index and height.
C15_KeyedByIndexAndHeight ==
    /\ [](/\ \A k \in IconKeys : \A i \in 1..Len(iconFetches[k]) :
                iconFetches[k][i].height = k.height
          /\ mc.private_data # NULL =>
                \A k \in DOMAIN Cache :
                    /\ k \in IconKeys
                    /\ Len(iconFetches[k]) >= 1
                    /\ Cache[k] = LastFetched(k)
          /\ (ret.op = "get_icon" /\ ret.queried) => ret.pline = ret.line
          /\ (ret.op = "get_icon" /\ ret.uid.some) =>
                \E i \in 1..Len(iconFetches[LastIconKey]) :
                    iconFetches[LastIconKey][i] =
                        [height |-> ret.arg, uid |-> ret.uid.val])
    /\ [][(ret'.op = "get_icon" /\ mc.private_data # NULL
           /\ LastIconKey' \notin DOMAIN Cache) =>
             /\ ret'.queried
             /\ ret'.answer.some =>
                   /\ iconFetches'[LastIconKey'] =
                         Append(iconFetches[LastIconKey'],
                                [height |-> ret'.arg, uid |-> ret'.uid.val])
                   /\ Cache' = (LastIconKey' :> ret'.uid.val) @@ Cache]_vars

\* C15 witness: one index has an entry for each of two heights, with
\* different uids, and the last call was answered from the second.
C15_Witness ==
    /\ ret.op = "get_icon"
    /\ ret.hit
    /\ ret.line = 0
    /\ ret.arg = 32
    /\ ret.uid = Some(0)
    /\ [line |-> 0, height |-> 16, scale |-> FixedScale] \in DOMAIN Cache
    /\ Cache[[line |-> 0, height |-> 16, scale |-> FixedScale]] = 7

\* C17: a ModeData that init has just allocated has an empty cache, so the
\* first get_icon call after it is a miss that calls icon_query; every entry
\* of the cache in place was fetched by a call on this ModeData, after at
\* least one icon_query call on it for the key.
C17_CacheStartsEmpty ==
    /\ [](mc.private_data # NULL =>
             /\ (ret.op = "init" /\ ret.value = 1) => Cache = <<>>
             /\ \A k \in DOMAIN Cache :
                   /\ iconQueryCalls[k] >= 1
                   /\ Len(iconFetches[k]) = 1
                   /\ Cache[k] = iconFetches[k][1].uid)
    /\ [][(ret.op = "init" /\ ret.value = 1 /\ ret'.op = "get_icon") =>
             (~ret'.hit /\ ret'.queried)]_vars

\* C17 witness: after a destroy freed a ModeData and a second init allocated
\* another, a get_icon call was a miss that asked icon_query, the second
\* icon_query call of the run and the first for its key on the new ModeData.
C17_Witness ==
    /\ ret.op = "get_icon"
    /\ ret.queried
    /\ ret.fetched
    /\ initCalls = 2
    /\ \E a \in Addrs : heap[a].status = "freed"
    /\ mc.private_data # NULL
    /\ heap[mc.private_data].status = "live"
    /\ iconQueryTotal = 2
    /\ iconQueryCalls[LastIconKey] = 1

\* the threads that are past the lock and before the return of _get_icon
InCritical == {t \in Threads : calls[t].pc \in {"lookup", "query", "fetch", "get"}}

\* C16: under a host that makes one call at a time the lock is free whenever
\* no call is in progress, whichever path the last get_icon call took; a call
\* that comes to the lock finds it free, and holds it from there to its
\* return.
C16_LockNeverContends ==
    /\ AllIdle => lock = Free
    /\ \A t \in Threads :
          /\ calls[t].pc = "lock" => lock = Free
          /\ t \in InCritical => lock = t

\* C16 witness: a get_icon call that was answered from the cache has returned
\* to a thread other than the one whose call had fetched the entry, and the
\* lock is free.
C16_Witness ==
    /\ AllIdle
    /\ lock = Free
    /\ ret.op = "get_icon"
    /\ ret.hit
    /\ calls[2].icon_uid.some /\ ~calls[2].queried
    /\ calls[1].fetched
    /\ calls[1].data = calls[2].data
    /\ EntryOf(1) = EntryOf(2)

\* C18: when threads are in get_icon at once, at most one of them is between
\* the lock and the return; for each key rofi_icon_fetcher_query is called at
\* most once on a ModeData, the entry holds the uid of that one call, and any
\* two calls for one key on one ModeData that used a uid used the same one.
C18_ParallelCallsSerialized ==
    /\ Cardinality(InCritical) <= 1
    /\ \A k \in IconKeys : Len(iconFetches[k]) <= 1
    /\ mc.private_data # NULL =>
          \A k \in DOMAIN Cache : iconFetches[k] = <<[height |-> k.height, uid |-> Cache[k]]>>
    /\ \A t, u \in Threads :
          (/\ calls[t].data = calls[u].data
           /\ EntryOf(t) = EntryOf(u)
           /\ calls[t].icon_uid.some
           /\ calls[u].icon_uid.some) => calls[t].icon_uid = calls[u].icon_uid

\* C18 witness: thread 2 waits at the lock for the key that thread 1, which
\* holds the lock, has just fetched and inserted.
C18_Witness ==
    /\ calls[1].pc = "get"
    /\ calls[1].fetched
    /\ lock = 1
    /\ calls[2].pc = "lock"
    /\ calls[2].data = calls[1].data
    /\ EntryOf(2) = EntryOf(1)
====
